---- MODULE Spec2Model ----
(***************************************************************************)
(* Model of the RAG_Bot backend core:                                      *)
(*   - ServiceFactory (backend/app/services/factory.py): the registry of   *)
(*     provider classes and the cache of singleton instances;              *)
(*   - RateLimiter (backend/app/core/security.py): the per-client,         *)
(*     per-minute request counter.                                         *)
(*   - the request pipeline (backend/app/main.py): rate-limit, logging and *)
(*     security-header middleware, the exception handlers and the routes;  *)
(*   - OpenAIEmbeddings.embed_texts and validate_connection                *)
(*     (backend/app/services/embeddings, backend/app/services/llm);        *)
(*   - Settings and get_settings (backend/app/core/config.py).             *)
(* Python objects are modelled by records carrying an identity (id): every *)
(* call of a provider class allocates a new object, so a new id.           *)
(***************************************************************************)
EXTENDS Integers, Sequences, FiniteSets, TLC

VARIABLES
    providers,            \* ServiceFactory._llm_providers ... _chat_services, by role
    instances,            \* ServiceFactory._instances: cache key -> instance
    ret,                  \* outcome of the last completed ServiceFactory call
    pc,                   \* threads: position of each thread inside get_*
    frame,                \* threads: locals of each thread's get_* call
    adm,                  \* threads: position and locals inside is_allowed
    requests,             \* RateLimiter.requests
    minute,               \* int(time.time() // 60)
    requests_per_minute,  \* RateLimiter.requests_per_minute
    rl_ret,               \* outcome of the last is_allowed call
    http,                 \* the last HTTP request and the response it got
    emb,                  \* the embed_texts call in progress, or the last one
    conn,                 \* outcome of the last validate_connection call
    cfg                   \* the last Settings(...) or get_settings() call

vars == <<providers, instances, ret, pc, frame, adm,
          requests, minute, requests_per_minute, rl_ret, http, emb, conn,
          cfg>>

factoryVars == <<providers, instances, ret>>
threadVars  == <<pc, frame, adm>>
limiterVars == <<requests, minute, requests_per_minute, rl_ret>>
serviceVars == <<http, emb, conn, cfg>>

-----------------------------------------------------------------------------
(* Bounds of the model *)

\* threads calling get_* concurrently
MaxThreads == 2
\* largest per-minute ceiling a limiter is built with
MaxCeiling == 2
\* minutes the clock may advance
MaxMinute == 3
\* clients calling the limiter
MaxClients == 2
\* longest list of texts passed to embed_texts
MaxTexts == 5
\* largest batch_size passed to embed_texts
MaxBatch == 3
\* nested get_* calls the interpreter allows before it raises RecursionError
\* (sys.getrecursionlimit(), counted in get_* frames)
RecursionLimit == 3

-----------------------------------------------------------------------------
(* Roles, names, classes *)

LeafRoles == {"llm_provider", "embeddings_service", "vector_store"}

Roles == LeafRoles \cup {"retrieval_strategy", "chat_service"}

\* settings.llm_provider, settings.embeddings_provider,
\* settings.vector_store_provider; the default arguments of
\* create/get_retrieval_strategy and create/get_chat_service
Default(role) ==
    CASE role = "llm_provider"       -> "openai"
      [] role = "embeddings_service" -> "openai"
      [] role = "vector_store"       -> "pinecone"
      [] role = "retrieval_strategy" -> "similarity"
      [] role = "chat_service"       -> "default"

\* names a caller registers under a role
RegNames(role) ==
    IF role = "llm_provider" THEN {"openai", "stub"} ELSE {Default(role)}

\* names a caller passes to create_* and get_*; "" is the empty string; a
\* call that omits the name (None) behaves as the call naming the default
ArgNames(role) == RegNames(role) \cup {""}

\* provider classes a caller registers under a role
Classes(role, name) ==
    IF role = "llm_provider" /\ name = "openai" THEN {"A", "B"} ELSE {"A"}

\* None, where an instance is expected
NoInst == [role |-> "", name |-> "", cls |-> "", serial |-> 0, deps |-> <<>>]

NoRes == [ok |-> TRUE, val |-> NoInst, err |-> "", req |-> "", avail |-> {}]

\* f"llm_provider_{provider_name}" and its four siblings
cache_key(role, name) == role \o "_" \o name

\* `name or settings.<role default>`: a falsy name selects the default
OrDefault(role, name) == IF name = "" THEN Default(role) ELSE name

-----------------------------------------------------------------------------
(* The call state threaded through one ServiceFactory call:                *)
(*   inst: _instances, held: the instances callers hold references to,     *)
(*   log: the class calls made by the call, in order, res: what the call   *)
(*   returns or raises.                                                    *)

World(i, h) == [inst |-> i, held |-> h, log |-> <<>>, res |-> NoRes]

\* the objects alive during a call: the cached ones and the ones callers
\* hold (held)
Live(w) == {w.inst[k] : k \in DOMAIN w.inst} \cup w.held

\* the identity of a newly allocated object: no live object of the same
\* (role, name) has it
FreshSerial(w, role, name) ==
    LET used == {o.serial : o \in {x \in Live(w) :
                                     x.role = role /\ x.name = name}}
    IN  CHOOSE s \in 1..(Cardinality(used) + 1) :
            /\ s \notin used
            /\ \A t \in 1..(s - 1) : t \in used

\* raise ValueError(f"Unknown ...: {name}. Available ...: {available}")
RaiseUnknown(w, name, available) ==
    [w EXCEPT !.res = [ok |-> FALSE, val |-> NoInst, err |-> "ValueError",
                       req |-> name, avail |-> available]]

\* provider_class(**kwargs): allocates an object, then runs __init__, which
\* raises when the role is in `fails`
Invoke(w, role, name, cls, deps, fails) ==
    LET obj == [role |-> role, name |-> name, cls |-> cls,
                serial |-> FreshSerial(w, role, name), deps |-> deps]
        w1  == [w EXCEPT !.log = Append(@, <<role, name>>)]
    IN  IF role \in fails
        THEN [w1 EXCEPT !.res = [ok |-> FALSE, val |-> NoInst,
                                 err |-> "ConstructionError",
                                 req |-> name, avail |-> {}]]
        ELSE [w1 EXCEPT !.res = [NoRes EXCEPT !.val = obj]]

\* create_llm_provider, create_embeddings_service, create_vector_store
CreateLeafFromCache(w, role, name, fails) ==
    LET n   == OrDefault(role, name)
        key == cache_key(role, n)
    IN  IF n \notin DOMAIN providers[role]
        THEN RaiseUnknown(w, n, DOMAIN providers[role])
        ELSE IF key \in DOMAIN w.inst
        THEN [w EXCEPT !.res = [NoRes EXCEPT !.val = w.inst[key]]]
        ELSE Invoke(w, role, n, providers[role][n], <<>>, fails)

CreateLeaf(w, role, name, fails) ==
    LET n == OrDefault(role, name)
    IN  IF n \notin DOMAIN providers[role]
        THEN RaiseUnknown(w, n, DOMAIN providers[role])
        ELSE Invoke(w, role, n, providers[role][n], <<>>, fails)

\* cls._instances[cache_key] = <created>; return cls._instances[cache_key]:
\* the assignment is not reached when the creation raised
StoreEvenIfRaised(c, key) == [c EXCEPT !.inst = (key :> c.res.val) @@ @]

Store(c, key) ==
    IF c.res.ok THEN [c EXCEPT !.inst = (key :> c.res.val) @@ @] ELSE c


\* if cache_key not in cls._instances
NeverCached(w, key) == FALSE

Cached(w, key) == key \in DOMAIN w.inst

\* get_llm_provider, get_embeddings_service, get_vector_store
GetLeafRebuilds(w, role, name, fails) ==
    Store(CreateLeaf(w, role, OrDefault(role, name), fails),
          cache_key(role, OrDefault(role, name)))

GetLeaf(w, role, name, fails) ==
    LET n   == OrDefault(role, name)
        key == cache_key(role, n)
    IN  IF Cached(w, key)
        THEN [w EXCEPT !.res = [NoRes EXCEPT !.val = w.inst[key]]]
        ELSE Store(CreateLeaf(w, role, n, fails), key)

\* create_retrieval_strategy(strategy_name) with both dependencies omitted
CreateRetrievalAtomic(w, name, fails) ==
    IF name \notin DOMAIN providers["retrieval_strategy"]
    THEN RaiseUnknown(w, name, DOMAIN providers["retrieval_strategy"])
    ELSE LET v == GetLeaf(w, "vector_store", "", fails)
         IN  IF ~v.res.ok THEN [v EXCEPT !.inst = w.inst]
             ELSE LET e == GetLeaf(v, "embeddings_service", "", fails)
                  IN  IF ~e.res.ok THEN [e EXCEPT !.inst = w.inst]
                      ELSE LET c == Invoke(e, "retrieval_strategy", name,
                                        providers["retrieval_strategy"][name],
                                        <<v.res.val, e.res.val>>, fails)
                           IN  IF ~c.res.ok THEN [c EXCEPT !.inst = w.inst]
                               ELSE c

\* a variant that builds its own dependencies with create_*
CreateRetrievalOwnDeps(w, name, fails) ==
    IF name \notin DOMAIN providers["retrieval_strategy"]
    THEN RaiseUnknown(w, name, DOMAIN providers["retrieval_strategy"])
    ELSE LET v == CreateLeaf(w, "vector_store", "", fails)
         IN  IF ~v.res.ok THEN v
             ELSE LET e == CreateLeaf([v EXCEPT !.held = @ \cup {v.res.val}],
                                      "embeddings_service", "", fails)
                  IN  IF ~e.res.ok THEN e
                      ELSE Invoke(e, "retrieval_strategy", name,
                                  providers["retrieval_strategy"][name],
                                  <<v.res.val, e.res.val>>, fails)

CreateRetrieval(w, name, fails) ==
    IF name \notin DOMAIN providers["retrieval_strategy"]
    THEN RaiseUnknown(w, name, DOMAIN providers["retrieval_strategy"])
    ELSE LET v == GetLeaf(w, "vector_store", "", fails)
         IN  IF ~v.res.ok THEN v
             ELSE LET e == GetLeaf(v, "embeddings_service", "", fails)
                  IN  IF ~e.res.ok THEN e
                      ELSE Invoke(e, "retrieval_strategy", name,
                                  providers["retrieval_strategy"][name],
                                  <<v.res.val, e.res.val>>, fails)

\* get_retrieval_strategy
GetRetrieval(w, name, fails) ==
    LET key == cache_key("retrieval_strategy", name)
    IN  IF Cached(w, key)
        THEN [w EXCEPT !.res = [NoRes EXCEPT !.val = w.inst[key]]]
        ELSE Store(CreateRetrieval(w, name, fails), key)

\* create_chat_service(service_name) with both dependencies omitted
CreateChatDepsNotCached(w, name, fails) ==
    IF name \notin DOMAIN providers["chat_service"]
    THEN RaiseUnknown(w, name, DOMAIN providers["chat_service"])
    ELSE LET l == CreateLeaf(w, "llm_provider", "", fails)
         IN  IF ~l.res.ok THEN l
             ELSE LET r == CreateRetrieval(l, "similarity", fails)
                  IN  IF ~r.res.ok THEN r
                      ELSE Invoke(r, "chat_service", name,
                                  providers["chat_service"][name],
                                  <<l.res.val, r.res.val>>, fails)

CreateChat(w, name, fails) ==
    IF name \notin DOMAIN providers["chat_service"]
    THEN RaiseUnknown(w, name, DOMAIN providers["chat_service"])
    ELSE LET l == GetLeaf(w, "llm_provider", "", fails)
         IN  IF ~l.res.ok THEN l
             ELSE LET r == GetRetrieval(l, "similarity", fails)
                  IN  IF ~r.res.ok THEN r
                      ELSE Invoke(r, "chat_service", name,
                                  providers["chat_service"][name],
                                  <<l.res.val, r.res.val>>, fails)

\* get_chat_service
GetChat(w, name, fails) ==
    LET key == cache_key("chat_service", name)
    IN  IF Cached(w, key)
        THEN [w EXCEPT !.res = [NoRes EXCEPT !.val = w.inst[key]]]
        ELSE Store(CreateChat(w, name, fails), key)

\* create_<role>(name)
CreateOf(w, role, name, fails) ==
    CASE role \in LeafRoles           -> CreateLeaf(w, role, name, fails)
      [] role = "retrieval_strategy"  -> CreateRetrieval(w, name, fails)
      [] role = "chat_service"        -> CreateChat(w, name, fails)

\* get_<role>(name)
GetOf(w, role, name, fails) ==
    CASE role \in LeafRoles           -> GetLeaf(w, role, name, fails)
      [] role = "retrieval_strategy"  -> GetRetrieval(w, name, fails)
      [] role = "chat_service"        -> GetChat(w, name, fails)

\* the name create_<role>/get_<role> look up for argument `name`: only the
\* three leaf roles replace a falsy name by the configured default
Resolved(role, name) ==
    IF role \in LeafRoles THEN OrDefault(role, name) ELSE name

\* the cache key get_<role>(name) uses
KeyOf(role, name) == cache_key(role, Resolved(role, name))

-----------------------------------------------------------------------------
(* ServiceFactory calls made one after the other *)

\* the record of a completed call: what was called, what it returned or
\* raised (res), the class calls it made (log) and, for
\* validate_all_connections, the dict it returned (results)
Ret(op, role, name, w, results) ==
    [op |-> op, role |-> role, name |-> name, cls |-> "", res |-> w.res,
     log |-> w.log, results |-> results]

\* cls._llm_providers[name] = provider_class and its four siblings: a dict
\* assignment, it adds the key or replaces the value the key had
RegisteredKeepsFirst(reg, name, cls) == reg @@ (name :> cls)

Registered(reg, name, cls) == (name :> cls) @@ reg

\* a registration that also drops the singleton cached under the name
RegisterEvicts(role, name, cls) ==
    /\ providers' = [providers EXCEPT ![role] = Registered(@, name, cls)]
    /\ ret' = [Ret("register", role, name, World(instances, {}), <<>>)
                 EXCEPT !.cls = cls]
    /\ instances' = [k \in DOMAIN instances \ {cache_key(role, name)} |->
                        instances[k]]
    /\ UNCHANGED <<threadVars, limiterVars, serviceVars>>

\* register_llm_provider ... register_chat_service; ret.cls records the class
\* that was passed
Register(role, name, cls) ==
    /\ providers' = [providers EXCEPT ![role] = Registered(@, name, cls)]
    /\ ret' = [Ret("register", role, name, World(instances, {}), <<>>)
                 EXCEPT !.cls = cls]
    /\ UNCHANGED instances
    /\ UNCHANGED <<threadVars, limiterVars, serviceVars>>

\* create_<role>(name)
Create(role, name, fails) ==
    LET w == CreateOf(World(instances, {}), role, name, fails)
    IN  /\ instances' = w.inst
        /\ ret' = Ret("create", role, name, w, <<>>)
        /\ UNCHANGED providers
        /\ UNCHANGED <<threadVars, limiterVars, serviceVars>>

\* get_<role>(name)
Get(role, name, fails) ==
    LET w == GetOf(World(instances, {}), role, name, fails)
    IN  /\ instances' = w.inst
        /\ ret' = Ret("get", role, name, w, <<>>)
        /\ UNCHANGED providers
        /\ UNCHANGED <<threadVars, limiterVars, serviceVars>>

\* cls._instances.clear()
ClearKeepsAll(w) == w

ClearOf(w) == [w EXCEPT !.inst = <<>>]

\* clear_instances
Clear ==
    /\ instances' = ClearOf(World(instances, {})).inst
    /\ ret' = Ret("clear", "", "", World(<<>>, {}), <<>>)
    /\ UNCHANGED providers
    /\ UNCHANGED <<threadVars, limiterVars, serviceVars>>

\* what probing a role meets: "init raises": the class call raises if the
\* instance has to be built (validate_connection, if reached, returns False);
\* "True", "False": validate_connection returns it; "raise": it raises
ProbeOutcomes == {"True", "False", "raise", "init raises"}

\* one try/except block of validate_all_connections: acc.w is the call
\* state, acc.results the dict built so far, acc.raised whether an exception
\* has left validate_all_connections
TryProbeNoCatch(acc, role, probe) ==
    LET g == GetLeaf(acc.w, role, "",
                     IF probe[role] = "init raises" THEN {role} ELSE {})
    IN  IF acc.raised THEN acc
        ELSE IF g.res.ok /\ probe[role] # "raise"
        THEN [acc EXCEPT !.w = g,
                         !.results = (role :> (probe[role] = "True")) @@ @]
        ELSE [acc EXCEPT !.w = g, !.raised = TRUE]

TryProbe(acc, role, probe) ==
    LET g == GetLeaf(acc.w, role, "",
                     IF probe[role] = "init raises" THEN {role} ELSE {})
    IN  IF acc.raised THEN acc
        ELSE IF g.res.ok /\ probe[role] # "raise"
        THEN [acc EXCEPT !.w = g,
                         !.results = (role :> (probe[role] = "True")) @@ @]
        ELSE [acc EXCEPT !.w = g, !.results = (role :> FALSE) @@ @]

\* validate_all_connections
ValidateAllOf(w, probe) ==
    LET a0 == [w |-> w, results |-> <<>>, raised |-> FALSE]
        a1 == TryProbe(a0, "llm_provider", probe)
        a2 == TryProbe(a1, "embeddings_service", probe)
    IN  TryProbe(a2, "vector_store", probe)

ValidateAll(probe) ==
    LET a == ValidateAllOf(World(instances, {}), probe)
    IN  /\ instances' = a.w.inst
        /\ ret' = [op |-> "validate_all", role |-> "", name |-> "",
                   cls |-> "",
                   res |-> [NoRes EXCEPT !.ok = ~a.raised],
                   log |-> a.w.log, results |-> a.results]
        /\ UNCHANGED providers
        /\ UNCHANGED <<threadVars, limiterVars, serviceVars>>

\* list(d.keys()): the keys of a dict, each once
KeysList(d) ==
    CHOOSE l \in [1..Cardinality(DOMAIN d) -> DOMAIN d] :
        {l[i] : i \in DOMAIN l} = DOMAIN d

\* get_available_providers, over the registries `reg`; the dict it returns is
\* keyed here by role ("llm_provider" for "llm_providers", and so on)
get_available_providers(reg) == [role \in Roles |-> KeysList(reg[role])]

-----------------------------------------------------------------------------
(* The state after the classes are defined and the limiter is built *)

InitFactory ==
    /\ providers = [r \in Roles |-> <<>>]
    /\ instances = <<>>
    /\ ret = Ret("", "", "", World(<<>>, {}), <<>>)

\* the locals of a thread that has not entered get_*
NoFrame == [role |-> "", name |-> "", key |-> "", obj |-> NoInst,
            invoked |-> FALSE, res |-> NoRes]

\* the locals of a thread that has not entered is_allowed
NoAdm == [pc |-> "idle", client_id |-> 0, minute |-> 0,
          current_requests |-> 0, result |-> ""]

InitThreadsIdle ==
    /\ pc = [t \in 1..MaxThreads |-> "idle"]
    /\ frame = [t \in 1..MaxThreads |-> NoFrame]
    /\ adm = [t \in 1..MaxThreads |-> NoAdm]

InitLimiterIdle ==
    /\ requests = <<>>
    /\ minute = 0
    /\ requests_per_minute = MaxCeiling
    /\ rl_ret = [client |-> 0, minute |-> 0, result |-> ""]

\* no request handled yet
NoResp == [kind |-> "", status |-> 0, status_text |-> "", error |-> "",
           request_id |-> "", services |-> <<>>, retry_after |-> "",
           x_request_id |-> "", security_headers |-> FALSE,
           stack_trace |-> FALSE]

NoReq == [path |-> "", xff |-> <<>>, real_ip |-> <<>>, peer |-> <<>>,
          rid |-> ""]

NoHttp == [req |-> NoReq, client_id |-> <<>>, admit |-> "", events |-> <<>>,
           state_request_id |-> "", resp |-> NoResp]

\* no embed_texts call made yet
NoEmb == [pc |-> "idle", texts |-> <<>>, batch_size |-> 1, i |-> 0,
          all_responses |-> <<>>, events |-> <<>>, result |-> <<>>,
          err |-> ""]

NoConn == [role |-> "", upstream |-> "", result |-> ""]

\* no Settings built yet
NoCfg == [op |-> "", kwargs |-> <<>>, env |-> <<>>, yaml_base |-> <<>>,
          yaml_env |-> <<>>, ok |-> TRUE, val |-> <<>>, errors |-> {}]

InitServicesIdle ==
    /\ http = NoHttp
    /\ emb = NoEmb
    /\ conn = NoConn
    /\ cfg = NoCfg

\* the roles whose __init__ raises during one create_* or get_* call: the call
\* ends at the first class call that raises, so at most one role matters
DepRoles(role) ==
    CASE role \in LeafRoles          -> {role}
      [] role = "retrieval_strategy" ->
            {"vector_store", "embeddings_service", "retrieval_strategy"}
      [] role = "chat_service"       -> Roles

FailChoices(role) == {{}} \cup {{r} : r \in DepRoles(role)}

Init == InitFactory /\ InitThreadsIdle /\ InitLimiterIdle /\ InitServicesIdle

Next ==
    \/ \E role \in Roles : \E name \in RegNames(role) : \E cls \in Classes(role, name) :
          Register(role, name, cls)
    \/ \E role \in Roles : \E name \in ArgNames(role) : \E fails \in FailChoices(role) :
          Create(role, name, fails)
    \/ \E role \in Roles : \E name \in ArgNames(role) : \E fails \in FailChoices(role) :
          Get(role, name, fails)
    \/ Clear

Spec == Init /\ [][Next]_vars

\* the registry as the readiness probe uses it
NextReady ==
    \/ \E role \in LeafRoles : \E name \in RegNames(role) :
          \E cls \in Classes(role, name) : Register(role, name, cls)
    \/ \E probe \in [LeafRoles -> ProbeOutcomes] : ValidateAll(probe)
    \/ \E role \in LeafRoles : \E name \in ArgNames(role) :
          \E fails \in FailChoices(role) : Get(role, name, fails)
    \/ Clear

SpecReady == Init /\ [][NextReady]_vars

\* what a probe meets, as far as the cache is concerned: the instance is
\* fetched or built and validated, or its class call raises
CacheProbeOutcomes == {"True", "init raises"}

\* every ServiceFactory call, over the five roles, one after the other
NextShared ==
    \/ Next
    \/ \E probe \in [LeafRoles -> CacheProbeOutcomes] : ValidateAll(probe)

SpecShared == Init /\ [][NextShared]_vars

-----------------------------------------------------------------------------
(* Provider classes whose __init__ calls ServiceFactory.get_<role> for the *)
(* (role, name) they are registered under.  "Self" lets an exception of    *)
(* that call leave __init__; "SelfCatch" wraps the call in                 *)
(* try/except Exception and goes on without the dependency.  The factory   *)
(* keeps no record of the constructions in progress, so the nested call    *)
(* takes the same path as the outer one, until the interpreter's recursion *)
(* limit raises RecursionError (an Exception) in the innermost call.       *)

SelfClasses == {"Self", "SelfCatch"}

\* the classes registered in this part of the model
NestedClasses == {"A"} \cup SelfClasses

RaiseRecursionError(w, name) ==
    [w EXCEPT !.res = [ok |-> FALSE, val |-> NoInst, err |-> "RecursionError",
                       req |-> name, avail |-> {}]]

RECURSIVE GetNested(_, _, _, _)

\* provider_class(**kwargs) at nesting depth `depth`: the object is allocated,
\* then __init__ runs and, for a class of SelfClasses, calls get_<role>(name)
InvokeNested(w, role, name, depth) ==
    LET cls == providers[role][name]
        obj == [role |-> role, name |-> name, cls |-> cls,
                serial |-> FreshSerial(w, role, name), deps |-> <<>>]
        w1  == [w EXCEPT !.log = Append(@, <<role, name>>),
                         !.held = @ \cup {obj}]
    IN  IF cls \notin SelfClasses
        THEN [w1 EXCEPT !.res = [NoRes EXCEPT !.val = obj]]
        ELSE LET inner == GetNested(w1, role, name, depth + 1)
             IN  IF inner.res.ok \/ cls = "SelfCatch"
                 THEN [inner EXCEPT !.res = [NoRes EXCEPT !.val = obj]]
                 ELSE inner

\* create_llm_provider, create_embeddings_service, create_vector_store
CreateNested(w, role, name, depth) ==
    LET n == OrDefault(role, name)
    IN  IF n \notin DOMAIN providers[role]
        THEN RaiseUnknown(w, n, DOMAIN providers[role])
        ELSE InvokeNested(w, role, n, depth)

\* get_llm_provider, get_embeddings_service, get_vector_store, entered with
\* `depth` - 1 get_* calls already on the stack
GetNested(w, role, name, depth) ==
    LET n   == OrDefault(role, name)
        key == cache_key(role, n)
    IN  IF depth > RecursionLimit
        THEN RaiseRecursionError(w, n)
        ELSE IF Cached(w, key)
        THEN [w EXCEPT !.res = [NoRes EXCEPT !.val = w.inst[key]]]
        ELSE Store(CreateNested(w, role, n, depth), key)

\* get_<role>(name), called by the application
GetSelf(role, name) ==
    LET w == GetNested(World(instances, {}), role, name, 1)
    IN  /\ instances' = w.inst
        /\ ret' = Ret("get", role, name, w, <<>>)
        /\ UNCHANGED providers
        /\ UNCHANGED <<threadVars, limiterVars, serviceVars>>

NextSelf ==
    \/ \E role \in LeafRoles : \E cls \in NestedClasses :
          Register(role, Default(role), cls)
    \/ \E role \in LeafRoles : \E name \in {Default(role), ""} :
          GetSelf(role, name)
    \/ Clear

SpecSelf == Init /\ [][NextSelf]_vars

-----------------------------------------------------------------------------
(* get_llm_provider, get_embeddings_service, get_vector_store called from  *)
(* several threads: the class holds no lock, so a thread switch may fall   *)
(* between the cache test (line 196), the class call (line 197, right-hand *)
(* side), the store into _instances (line 197) and the read that is        *)
(* returned (line 199).                                                    *)

Threads == 1..MaxThreads

\* the objects threads hold in their frames
HeldByThreads == {frame[t].obj : t \in Threads} \cup {frame[t].res.val : t \in Threads}

\* a thread enters get_<role>(name)
TCall(t, role, name) ==
    /\ pc[t] = "idle"
    /\ frame' = [frame EXCEPT ![t] =
                    [NoFrame EXCEPT !.role = role,
                                    !.name = OrDefault(role, name),
                                    !.key = cache_key(role, OrDefault(role, name))]]
    /\ pc' = [pc EXCEPT ![t] = "check"]
    /\ UNCHANGED <<providers, instances, ret, adm, limiterVars, serviceVars>>

\* if cache_key not in cls._instances
TCheck(t) ==
    /\ pc[t] = "check"
    /\ pc' = [pc EXCEPT ![t] =
                 IF Cached(World(instances, {}), frame[t].key)
                 THEN "return" ELSE "create"]
    /\ UNCHANGED <<providers, instances, ret, frame, adm, limiterVars,
                   serviceVars>>

\* cls.create_<role>(name): the right-hand side of line 197
TCreate(t, fails) ==
    /\ pc[t] = "create"
    /\ LET c == CreateLeaf(World(instances, HeldByThreads),
                           frame[t].role, frame[t].name, fails)
       IN  /\ frame' = [frame EXCEPT ![t].obj = c.res.val,
                                     ![t].invoked = (c.log # <<>>),
                                     ![t].res = IF c.res.ok THEN NoRes ELSE c.res]
           /\ pc' = [pc EXCEPT ![t] = IF c.res.ok THEN "store" ELSE "done"]
    /\ UNCHANGED <<providers, instances, ret, adm, limiterVars, serviceVars>>

\* cls._instances[cache_key] = <the new instance>
TStore(t) ==
    /\ pc[t] = "store"
    /\ instances' = (frame[t].key :> frame[t].obj) @@ instances
    /\ pc' = [pc EXCEPT ![t] = "return"]
    /\ UNCHANGED <<providers, ret, frame, adm, limiterVars, serviceVars>>

\* return cls._instances[cache_key]
TReturn(t) ==
    /\ pc[t] = "return"
    /\ frame' = [frame EXCEPT ![t].res =
                    [NoRes EXCEPT !.val = instances[frame[t].key]]]
    /\ pc' = [pc EXCEPT ![t] = "done"]
    /\ UNCHANGED <<providers, instances, ret, adm, limiterVars, serviceVars>>

\* auto_register_services with every import succeeding, then threads start
InitThreads ==
    /\ providers = [r \in Roles |-> (Default(r) :> "A")]
    /\ instances = <<>>
    /\ ret = Ret("", "", "", World(<<>>, {}), <<>>)
    /\ pc = [t \in Threads |-> "idle"]
    /\ frame = [t \in Threads |-> NoFrame]
    /\ adm = [t \in Threads |-> NoAdm]
    /\ InitLimiterIdle
    /\ InitServicesIdle

NextThreads ==
    \E t \in Threads :
        \/ \E role \in LeafRoles : \E name \in ArgNames(role) : TCall(t, role, name)
        \/ TCheck(t)
        \/ \E fails \in FailChoices("llm_provider") \cup FailChoices("embeddings_service")
                         \cup FailChoices("vector_store") : TCreate(t, fails)
        \/ TStore(t)
        \/ TReturn(t)

SpecThreads == InitThreads /\ [][NextThreads]_vars

-----------------------------------------------------------------------------
(* RateLimiter *)

Clients == 1..MaxClients

\* `m < minute - 1` at line 74, m a key of self.requests: every key is the
\* tuple (client_id, minute) stored at line 90, and Python 3 does not order
\* a tuple against an int: the comparison raises TypeError
KeyOlderByItsMinute(m, n) == IF m[2] < n THEN "True" ELSE "False"

KeyOlder(m, n) == "TypeError"

\* if current_requests >= self.requests_per_minute
OverCeiling(current_requests, limit) == current_requests > limit

AtCeiling(current_requests, limit) == current_requests >= limit

\* is_allowed(client_id) at minute `now`: the requests left and the outcome
IsAllowedOf(reqs, limit, now, client) ==
    LET cmp  == [m \in DOMAIN reqs |-> KeyOlder(m, now - 1)]
        old  == {m \in DOMAIN reqs : cmp[m] = "True"}
        kept == [m \in DOMAIN reqs \ old |-> reqs[m]]
        key  == <<client, now>>
        current_requests == IF key \in DOMAIN kept THEN kept[key] ELSE 0
    IN  IF \E m \in DOMAIN reqs : cmp[m] = "TypeError"
        THEN [requests |-> reqs, result |-> "TypeError"]
        ELSE IF AtCeiling(current_requests, limit)
        THEN [requests |-> kept, result |-> "False"]
        ELSE [requests |-> (key :> current_requests + 1) @@ kept,
              result |-> "True"]

\* RateLimiter.is_allowed
IsAllowed(client) ==
    LET r == IsAllowedOf(requests, requests_per_minute, minute, client)
    IN  /\ requests' = r.requests
        /\ rl_ret' = [client |-> client, minute |-> minute, result |-> r.result]
        /\ UNCHANGED <<minute, requests_per_minute>>
        /\ UNCHANGED <<factoryVars, threadVars, serviceVars>>

\* time.time() moves into the next minute
Tick ==
    /\ minute < MaxMinute
    /\ minute' = minute + 1
    /\ UNCHANGED <<requests, requests_per_minute, rl_ret>>
    /\ UNCHANGED <<factoryVars, threadVars, serviceVars>>

\* RateLimiter(requests_per_minute)
InitLimiter ==
    /\ InitFactory
    /\ InitThreadsIdle
    /\ requests = <<>>
    /\ minute = 0
    /\ requests_per_minute \in 0..MaxCeiling
    /\ rl_ret = [client |-> 0, minute |-> 0, result |-> ""]
    /\ InitServicesIdle

NextLimiter == (\E client \in Clients : IsAllowed(client)) \/ Tick

SpecLimiter == InitLimiter /\ [][NextLimiter]_vars

-----------------------------------------------------------------------------
(* is_allowed called from several threads: the method takes no lock, so a  *)
(* thread switch may fall between the pruning loop (lines 74-76), the read *)
(* of the count (line 80) and the store of the incremented count (line 90) *)

\* a thread enters is_allowed(client_id) and reads the clock (lines 70-71)
ACall(t, client) ==
    /\ adm[t].pc = "idle"
    /\ adm' = [adm EXCEPT ![t] = [NoAdm EXCEPT !.pc = "prune",
                                               !.client_id = client,
                                               !.minute = minute]]
    /\ UNCHANGED <<factoryVars, pc, frame, limiterVars, serviceVars>>

\* lines 74-76: the comprehension over the keys, then the deletions
APrune(t) ==
    /\ adm[t].pc = "prune"
    /\ LET cmp  == [m \in DOMAIN requests |-> KeyOlder(m, adm[t].minute - 1)]
           old  == {m \in DOMAIN requests : cmp[m] = "True"}
       IN  IF \E m \in DOMAIN requests : cmp[m] = "TypeError"
           THEN /\ adm' = [adm EXCEPT ![t].pc = "done",
                                      ![t].result = "TypeError"]
                /\ UNCHANGED requests
           ELSE /\ adm' = [adm EXCEPT ![t].pc = "read"]
                /\ requests' = [m \in DOMAIN requests \ old |-> requests[m]]
    /\ UNCHANGED <<factoryVars, pc, frame, serviceVars>>
    /\ UNCHANGED <<minute, requests_per_minute, rl_ret>>

\* lines 79-87: the read of the count and the test against the ceiling
ARead(t) ==
    /\ adm[t].pc = "read"
    /\ LET key == <<adm[t].client_id, adm[t].minute>>
           current_requests ==
               IF key \in DOMAIN requests THEN requests[key] ELSE 0
       IN  adm' = [adm EXCEPT
                     ![t].current_requests = current_requests,
                     ![t].pc = IF AtCeiling(current_requests, requests_per_minute)
                               THEN "done" ELSE "write",
                     ![t].result = IF AtCeiling(current_requests,
                                                requests_per_minute)
                                   THEN "False" ELSE ""]
    /\ UNCHANGED <<factoryVars, pc, frame, limiterVars, serviceVars>>

\* lines 90-91: self.requests[key] = current_requests + 1; return True
AWrite(t) ==
    /\ adm[t].pc = "write"
    /\ requests' = (<<adm[t].client_id, adm[t].minute>> :>
                        adm[t].current_requests + 1) @@ requests
    /\ adm' = [adm EXCEPT ![t].pc = "done", ![t].result = "True"]
    /\ UNCHANGED <<factoryVars, pc, frame, serviceVars>>
    /\ UNCHANGED <<minute, requests_per_minute, rl_ret>>

NextAdmit ==
    \/ \E t \in Threads :
          \/ \E client \in Clients : ACall(t, client)
          \/ APrune(t)
          \/ ARead(t)
          \/ AWrite(t)
    \/ Tick

SpecAdmit == InitLimiter /\ [][NextAdmit]_vars

-----------------------------------------------------------------------------
(* The request pipeline of main.py.  A request passes, from the outside in: *)
(* the handler of uncaught exceptions (global_exception_handler),           *)
(* RateLimitMiddleware, RequestLoggingMiddleware, SecurityHeadersMiddleware *)
(* ("last added is executed first"), the handler of HTTPException           *)
(* (http_exception_handler) and the route.                                  *)

\* the paths clients request: the three routes of main.py and a route of
\* the API
Paths == {"/health", "/ready", "/info", "/api"}

\* the paths RateLimitMiddleware.dispatch passes without a check
ExemptPaths == {"/health", "/ready", "/docs", "/redoc", "/openapi.json"}

\* the client id "unknown" of a request without a peer address
Unknown == 0

\* X-Forwarded-For (the entries between its commas), X-Real-IP and the peer
\* address, <<>> when absent; X-Request-ID, "" when absent
Requests ==
    [path : Paths, xff : {<<>>, <<1, 2>>}, real_ip : {<<>>, <<2>>},
     peer : {<<>>, <<1>>}, rid : {"", "r1"}]

\* what the route of a path does: return, raise an exception, or raise
\* HTTPException
HandlerOutcomes(path) ==
    IF path = "/api" THEN {"ok", "raise", "http_error"} ELSE {"ok"}

\* what validate_connection of each role meets while /ready is handled
ReadyProbes(path) ==
    IF path = "/ready" THEN [LeafRoles -> {"True", "False"}]
    ELSE {[r \in LeafRoles |-> "True"]}

\* RateLimiter.get_client_id
get_client_id(req) ==
    LET peer_ip      == IF req.peer # <<>> THEN req.peer[1] ELSE Unknown
        forwarded_ip == IF req.xff # <<>> THEN req.xff[1] ELSE peer_ip
    IN  IF req.real_ip # <<>> THEN req.real_ip[1] ELSE forwarded_ip

\* get_request_id: the X-Request-ID header, or a new token
get_request_id(req) == IF req.rid # "" THEN req.rid ELSE "generated"

\* the context of one request on its way through the pipeline: exc is the
\* exception on its way out, "" when there is none
Ctx(req) ==
    [req |-> req, requests |-> requests, inst |-> instances,
     client_id |-> <<>>, admit |-> "", events |-> <<>>,
     state_request_id |-> "", resp |-> NoResp, exc |-> ""]

\* getattr(request.state, "request_id", "unknown")
StateRequestId(x) ==
    IF x.state_request_id = "" THEN "unknown" ELSE x.state_request_id

\* all(connections.values())
AnyHealthy(connections) ==
    \E r \in DOMAIN connections : connections[r]

AllHealthy(connections) ==
    \A r \in DOMAIN connections : connections[r]

\* F applied to the value of v, v being evaluated once
Then(v, F(_)) == CHOOSE r \in {F(y) : y \in {v}} : TRUE

\* readiness_check, from the dict validate_all_connections returned (or the
\* exception it raised) to the response
ReadinessResponse(x, a) ==
    IF a.raised
    THEN [x EXCEPT !.inst = a.w.inst,
                   !.resp = [NoResp EXCEPT !.kind = "ready",
                                           !.status = 503,
                                           !.status_text = "not ready",
                                           !.error = "str(e)"]]
    ELSE [x EXCEPT !.inst = a.w.inst,
                   !.resp = [NoResp EXCEPT
                               !.kind = "ready",
                               !.status = IF AllHealthy(a.results)
                                          THEN 200 ELSE 503,
                               !.status_text = IF AllHealthy(a.results)
                                               THEN "ready"
                                               ELSE "not ready",
                               !.services = a.results]]

\* readiness_check
ReadinessCheck(x, probe) ==
    Then(ValidateAllOf(World(x.inst, {}), probe),
         LAMBDA a : ReadinessResponse(x, a))

\* the route of the request: health_check, readiness_check, app_info, or a
\* route of the API
Route(x, outcome, probe) ==
    LET y  == [x EXCEPT !.events = Append(@, "handler")]
        ok == [NoResp EXCEPT !.kind = "ok", !.status = 200]
    IN  CASE x.req.path = "/ready" -> ReadinessCheck(y, probe)
          [] x.req.path \in {"/health", "/info"} -> [y EXCEPT !.resp = ok]
          [] OTHER ->
               CASE outcome = "ok"         -> [y EXCEPT !.resp = ok]
                 [] outcome = "raise"      -> [y EXCEPT !.exc = "Exception"]
                 [] outcome = "http_error" -> [y EXCEPT !.exc = "HTTPException"]

\* http_exception_handler: the response to an HTTPException
OnHTTPException(y) ==
    IF y.exc = "HTTPException"
    THEN [y EXCEPT !.exc = "",
                   !.resp = [NoResp EXCEPT !.kind = "http_error",
                                           !.status = 400,
                                           !.error = "exc.detail",
                                           !.request_id = StateRequestId(y)]]
    ELSE y

\* the route, inside the handler of HTTPException
HttpExceptionHandler(x, outcome, probe) ==
    Then(Route(x, outcome, probe), OnHTTPException)

\* SecurityHeadersMiddleware.dispatch after call_next
AddSecurityHeaders(y) ==
    IF y.exc # "" THEN y ELSE [y EXCEPT !.resp.security_headers = TRUE]

\* SecurityHeadersMiddleware.dispatch
SecurityHeadersDispatch(x, outcome, probe) ==
    Then(HttpExceptionHandler(x, outcome, probe), AddSecurityHeaders)

\* RequestLoggingMiddleware.dispatch after call_next: the response gets the
\* X-Request-ID header, an exception is logged and raised again
AddRequestIdHeader(y) ==
    IF y.exc # "" THEN y
    ELSE [y EXCEPT !.resp.x_request_id = y.state_request_id]

\* RequestLoggingMiddleware.dispatch
RequestLoggingDispatch(x, outcome, probe) ==
    Then(SecurityHeadersDispatch(
             [x EXCEPT !.state_request_id = get_request_id(x.req)],
             outcome, probe),
         AddRequestIdHeader)

\* check_rate_limit: raises HTTPException(429) when is_allowed returns False
check_rate_limit_lenient(x) ==
    LET client_id == get_client_id(x.req)
        r == IsAllowedOf(x.requests, requests_per_minute, minute, client_id)
    IN  [x EXCEPT !.client_id = <<client_id>>,
                  !.admit = r.result,
                  !.requests = r.requests,
                  !.events = Append(@, "admit"),
                  !.exc = IF r.result = "TypeError" THEN "TypeError" ELSE ""]

check_rate_limit(x) ==
    LET client_id == get_client_id(x.req)
        r == IsAllowedOf(x.requests, requests_per_minute, minute, client_id)
    IN  [x EXCEPT !.client_id = <<client_id>>,
                  !.admit = r.result,
                  !.requests = r.requests,
                  !.events = Append(@, "admit"),
                  !.exc = CASE r.result = "True"  -> ""
                            [] r.result = "False" -> "HTTPException"
                            [] OTHER              -> "TypeError"]

\* RateLimitMiddleware.dispatch after check_rate_limit
AfterRateLimitCheck(c, outcome, probe) ==
    CASE c.exc = "HTTPException" ->
           [c EXCEPT !.exc = "",
                     !.resp = [NoResp EXCEPT
                                 !.kind = "rate_limited",
                                 !.status = 429,
                                 !.error = "Rate limit exceeded. Please try again later.",
                                 !.retry_after = "60"]]
      [] c.exc = "" -> RequestLoggingDispatch(c, outcome, probe)
      [] OTHER -> c

\* RateLimitMiddleware.dispatch
RateLimitDispatch(x, outcome, probe) ==
    IF x.req.path \in ExemptPaths
    THEN RequestLoggingDispatch(x, outcome, probe)
    ELSE Then(check_rate_limit(x),
              LAMBDA c : AfterRateLimitCheck(c, outcome, probe))

\* global_exception_handler: the response to an exception nothing caught
OnException(y) ==
    IF y.exc # ""
    THEN [y EXCEPT !.exc = "",
                   !.resp = [NoResp EXCEPT !.kind = "exception",
                                           !.status = 500,
                                           !.error = "Internal server error",
                                           !.request_id = StateRequestId(y)]]
    ELSE y

\* the middleware, inside the handler of uncaught exceptions
GlobalExceptionHandler(x, outcome, probe) ==
    Then(RateLimitDispatch(x, outcome, probe), OnException)

\* one request, from its arrival to its response
Handle(req, outcome, probe) ==
    \E x \in {GlobalExceptionHandler(Ctx(req), outcome, probe)} :
        /\ http' = [req |-> req, client_id |-> x.client_id,
                    admit |-> x.admit, events |-> x.events,
                    state_request_id |-> x.state_request_id,
                    resp |-> x.resp]
        /\ requests' = x.requests
        /\ instances' = x.inst
        /\ rl_ret' = IF x.admit = "" THEN rl_ret
                     ELSE [client |-> x.client_id[1], minute |-> minute,
                           result |-> x.admit]
        /\ UNCHANGED <<providers, ret, minute, requests_per_minute>>
        /\ UNCHANGED <<threadVars, emb, conn, cfg>>

\* auto_register_services with every import succeeding;
\* RateLimiter(settings.api.rate_limit_requests)
InitHttp ==
    /\ providers = [r \in Roles |-> (Default(r) :> "A")]
    /\ instances = <<>>
    /\ ret = Ret("", "", "", World(<<>>, {}), <<>>)
    /\ InitThreadsIdle
    /\ requests = <<>>
    /\ minute = 0
    /\ requests_per_minute \in 0..MaxCeiling
    /\ rl_ret = [client |-> 0, minute |-> 0, result |-> ""]
    /\ InitServicesIdle

NextHttp ==
    \E req \in Requests : \E outcome \in HandlerOutcomes(req.path) :
        \E probe \in ReadyProbes(req.path) : Handle(req, outcome, probe)

SpecHttp == InitHttp /\ [][NextHttp]_vars

-----------------------------------------------------------------------------
(* OpenAIEmbeddings.embed_texts, one step per await, and validate_connection *)
(* of OpenAIProvider and OpenAIEmbeddings                                    *)

\* what a call of the upstream API meets
UpstreamOutcomes == {"ok", "APIError", "TimeoutError"}

\* the vector the upstream returns for a text
Embedding(t) == <<"embedding of", t>>

Min(a, b) == IF a < b THEN a ELSE b

\* texts[i:i + batch_size]
Slice(texts, i, batch_size) ==
    SubSeq(texts, i + 1, Min(i + batch_size, Len(texts)))

\* _embed_batch: one response per embedding returned; an exception of the
\* upstream call is logged and raised again
EmbedBatchSwallows(batch, up) ==
    IF up = "ok"
    THEN [ok |-> TRUE, err |-> "",
          responses |-> [j \in 1..Len(batch) |->
                            [embedding |-> Embedding(batch[j])]]]
    ELSE [ok |-> TRUE, err |-> "", responses |-> <<>>]

EmbedBatchOf(batch, up) ==
    IF up = "ok"
    THEN [ok |-> TRUE, err |-> "",
          responses |-> [j \in 1..Len(batch) |->
                            [embedding |-> Embedding(batch[j])]]]
    ELSE [ok |-> FALSE, err |-> up, responses |-> <<>>]

\* if i + batch_size < len(texts)
PaceAlways(i, batch_size, n) == TRUE

MoreBatches(i, batch_size, n) == i + batch_size < n

\* the for loop takes the next i of range(0, len(texts), batch_size), or
\* ends and embed_texts returns all_responses
LoopNext(e) ==
    IF e.i + e.batch_size < Len(e.texts)
    THEN [e EXCEPT !.i = e.i + e.batch_size, !.pc = "batch"]
    ELSE [e EXCEPT !.pc = "returned", !.result = e.all_responses]

\* embed_texts(texts, batch_size) is called with n texts
EmbedTexts(n, batch_size) ==
    /\ emb.pc \in {"idle", "returned", "raised"}
    /\ emb' = IF n = 0
              THEN [NoEmb EXCEPT !.pc = "returned", !.batch_size = batch_size]
              ELSE [NoEmb EXCEPT !.pc = "batch", !.batch_size = batch_size,
                                 !.texts = [k \in 1..n |-> k]]
    /\ UNCHANGED <<factoryVars, threadVars, limiterVars, http, conn, cfg>>

\* await self._embed_batch(batch, model), all_responses.extend(...), and
\* the test that decides whether to sleep
EmbedBatch(up) ==
    /\ emb.pc = "batch"
    /\ LET batch == Slice(emb.texts, emb.i, emb.batch_size)
           r     == EmbedBatchOf(batch, up)
           e     == [emb EXCEPT !.events = Append(@, [kind |-> "batch",
                                                     batch |-> batch,
                                                     outcome |-> up])]
       IN  emb' = IF ~r.ok
                  THEN [e EXCEPT !.pc = "raised", !.err = r.err]
                  ELSE LET e2 == [e EXCEPT !.all_responses = @ \o r.responses]
                       IN  IF MoreBatches(emb.i, emb.batch_size, Len(emb.texts))
                           THEN [e2 EXCEPT !.pc = "sleep"]
                           ELSE LoopNext(e2)
    /\ UNCHANGED <<factoryVars, threadVars, limiterVars, http, conn, cfg>>

\* await asyncio.sleep(0.1)
Sleep ==
    /\ emb.pc = "sleep"
    /\ emb' = LoopNext([emb EXCEPT !.events = Append(@, [kind |-> "sleep",
                                                         batch |-> <<>>,
                                                         outcome |-> "ok"])])
    /\ UNCHANGED <<factoryVars, threadVars, limiterVars, http, conn, cfg>>

\* embed_text: an exception of the upstream call is logged and raised again
EmbedTextOf(up) ==
    IF up = "ok"
    THEN [ok |-> TRUE, err |-> "", response |-> [embedding |-> Embedding(0)]]
    ELSE [ok |-> FALSE, err |-> up, response |-> <<>>]

\* except Exception: every failure of the upstream call is an Exception
CatchesNothing(err) == FALSE

CaughtByExcept(err) == err \in UpstreamOutcomes \ {"ok"}

\* OpenAIProvider.validate_connection, OpenAIEmbeddings.validate_connection
ValidateConnectionOf(role, up) ==
    LET err == IF role = "embeddings_service" THEN EmbedTextOf(up).err
               ELSE IF up = "ok" THEN "" ELSE up
    IN  IF err = "" THEN "True"
        ELSE IF CaughtByExcept(err) THEN "False"
        ELSE "raise"

ValidateConnection(role, up) ==
    /\ conn' = [role |-> role, upstream |-> up,
                result |-> ValidateConnectionOf(role, up)]
    /\ UNCHANGED <<factoryVars, threadVars, limiterVars, http, emb, cfg>>

NextEmbed ==
    \/ \E n \in 0..MaxTexts : \E batch_size \in 1..MaxBatch :
          EmbedTexts(n, batch_size)
    \/ \E up \in UpstreamOutcomes : EmbedBatch(up)
    \/ Sleep
    \/ \E role \in {"llm_provider", "embeddings_service"} :
          \E up \in UpstreamOutcomes : ValidateConnection(role, up)

SpecEmbed == Init /\ [][NextEmbed]_vars

-----------------------------------------------------------------------------
(* Settings and get_settings (backend/app/core/config.py).  A configuration *)
(* value is a scalar or a dict of values; both are records of one shape,    *)
(* told apart by `dict`, as isinstance(value, dict) tells them apart.       *)

Scalar(v) == [dict |-> FALSE, v |-> v, items |-> <<>>]

Dict(d) == [dict |-> TRUE, v |-> "", items |-> d]

\* the Field defaults of Settings and of OpenAISettings
SettingsDefaults ==
    [app_name              |-> Scalar("RAG Chatbot"),
     environment           |-> Scalar("development"),
     vector_store_provider |-> Scalar("pinecone"),
     llm_provider          |-> Scalar("openai"),
     openai                |-> Dict([api_key |-> Scalar("test-key"),
                                     model   |-> Scalar("gpt-4")])]

RECURSIVE FromSources(_, _)

\* pydantic-settings: a field takes the value of the higher source (init
\* arguments over environment variables over defaults), field by field in a
\* nested settings class
FromSources(low, high) ==
    [k \in DOMAIN low \cup DOMAIN high |->
        IF k \notin DOMAIN high THEN low[k]
        ELSE IF k \in DOMAIN low /\ low[k].dict /\ high[k].dict
        THEN Dict(FromSources(low[k].items, high[k].items))
        ELSE high[k]]

\* validate_environment, validate_vector_store_provider and
\* validate_llm_provider: the lists named `allowed`
AllowedAnything(field) ==
    {"development", "staging", "production", "pinecone", "chromadb",
     "openai", "anthropic", "invalid"}

Allowed(field) ==
    CASE field = "environment"           -> {"development", "staging", "production"}
      [] field = "vector_store_provider" -> {"pinecone", "chromadb"}
      [] field = "llm_provider"          -> {"openai", "anthropic"}

ValidatedFields == {"environment", "vector_store_provider", "llm_provider"}

\* Settings(**kwargs) with the environment variables env: the fields whose
\* validator raises ValueError make the construction fail
SettingsOf(kwargs, env) ==
    LET val == FromSources(FromSources(SettingsDefaults, env), kwargs)
        errors == {f \in ValidatedFields : val[f].v \notin Allowed(f)}
    IN  [ok |-> errors = {}, val |-> IF errors = {} THEN val ELSE <<>>,
         errors |-> errors]

\* yaml_config.update(file_config)
Update(d, other) ==
    [k \in DOMAIN d \cup DOMAIN other |->
        IF k \in DOMAIN other THEN other[k] ELSE d[k]]

RECURSIVE merge_yaml_config(_, _)

\* _merge_yaml_config(settings_dict, yaml_config): the dict left in
\* settings_dict.  settings_dict comes from model_dump(), so a nested
\* section is a dict and the hasattr(..., 'model_dump') branch does nothing
merge_yaml_config(settings_dict, yaml_config) ==
    [key \in DOMAIN settings_dict \cup DOMAIN yaml_config |->
        IF key \notin DOMAIN yaml_config THEN settings_dict[key]
        ELSE IF yaml_config[key].dict /\ key \in DOMAIN settings_dict
        THEN IF settings_dict[key].dict
             THEN Dict(merge_yaml_config(settings_dict[key].items,
                                         yaml_config[key].items))
             ELSE settings_dict[key]
        ELSE yaml_config[key]]

\* get_settings with environment variables env, config.yaml holding
\* yaml_base and config.<environment>.yaml holding yaml_env (an absent
\* file loads as the empty dict)
GetSettingsOf(env, yaml_base, yaml_env) ==
    LET settings == SettingsOf(<<>>, env)
        yaml_config == Update(Update(<<>>, yaml_base), yaml_env)
    IN  IF ~settings.ok \/ DOMAIN yaml_config = {} THEN settings
        ELSE SettingsOf(merge_yaml_config(settings.val, yaml_config), env)

\* the values a caller passes to Settings(...) for the validated fields
KwargChoices ==
    {[f \in F |-> Scalar(pick[f])] :
        F \in SUBSET ValidatedFields,
        pick \in [ValidatedFields ->
                    {"development", "staging", "production", "pinecone",
                     "chromadb", "openai", "anthropic", "invalid"}]}

\* environment variables: none, OPENAI_API_KEY, APP_NAME, ENVIRONMENT
EnvChoices ==
    {<<>>,
     [openai |-> Dict([api_key |-> Scalar("env-key")])],
     [app_name |-> Scalar("Env App"),
      openai |-> Dict([api_key |-> Scalar("env-key")])],
     [environment |-> Scalar("staging")]}

\* the contents of a YAML file: app_name or not, an openai section with any
\* of api_key and model or no such section; `tag` tells the files apart
YamlChoices(tag) ==
    LET tops == {<<>>, [app_name |-> Scalar("app-" \o tag)]}
        secs == {<<>>} \cup
                {[openai |-> Dict([k \in K |-> Scalar(k \o "-" \o tag)])] :
                    K \in SUBSET {"api_key", "model"}}
    IN  {Update(t, sec) : t \in tops, sec \in secs}

\* Settings(**kwargs)
ConstructSettings(kwargs) ==
    /\ LET r == SettingsOf(kwargs, <<>>)
       IN  cfg' = [NoCfg EXCEPT !.op = "Settings", !.kwargs = kwargs,
                                !.ok = r.ok, !.val = r.val,
                                !.errors = r.errors]
    /\ UNCHANGED <<factoryVars, threadVars, limiterVars, http, emb, conn>>

\* get_settings()
GetSettings(env, yaml_base, yaml_env) ==
    /\ LET r == GetSettingsOf(env, yaml_base, yaml_env)
       IN  cfg' = [NoCfg EXCEPT !.op = "get_settings", !.env = env,
                                !.yaml_base = yaml_base,
                                !.yaml_env = yaml_env,
                                !.ok = r.ok, !.val = r.val,
                                !.errors = r.errors]
    /\ UNCHANGED <<factoryVars, threadVars, limiterVars, http, emb, conn>>

NextConfig ==
    \/ \E kwargs \in KwargChoices : ConstructSettings(kwargs)
    \/ \E env \in EnvChoices : \E yaml_base \in YamlChoices("base") :
          \E yaml_env \in YamlChoices("env") :
             GetSettings(env, yaml_base, yaml_env)

SpecConfig == Init /\ [][NextConfig]_vars

-----------------------------------------------------------------------------
(* Properties of ServiceFactory and RateLimiter *)

Range(f) == {f[x] : x \in DOMAIN f}

\* C1: singleton identity.  In every behaviour of register, create, get and
\* clear calls: a get whose key is cached returns exactly the cached instance
\* without calling any class and without touching the cache; the instance a
\* successful get returns is the one cached under its key; and no call but
\* clear removes or replaces a cached instance.  Hence two gets of one key
\* with no clear between them return the identical instance, built once.
C1_SingletonIdentity ==
    [][ /\ (ret'.op = "get" /\ KeyOf(ret'.role, ret'.name) \in DOMAIN instances)
            => /\ ret'.res.ok
               /\ ret'.res.val = instances[KeyOf(ret'.role, ret'.name)]
               /\ ret'.log = <<>>
               /\ instances' = instances
        /\ (ret'.op = "get" /\ ret'.res.ok)
            => /\ KeyOf(ret'.role, ret'.name) \in DOMAIN instances'
               /\ instances'[KeyOf(ret'.role, ret'.name)] = ret'.res.val
        /\ ret'.op # "clear"
            => \A k \in DOMAIN instances :
                  k \in DOMAIN instances' /\ instances'[k] = instances[k]
      ]_vars

\* a get of the chat service was answered from the cache
C1_Witness ==
    /\ ret.op = "get" /\ ret.role = "chat_service" /\ ret.res.ok
    /\ ret.log = <<>>
    /\ instances[KeyOf(ret.role, ret.name)] = ret.res.val

\* C2: concurrent get.  Whenever two threads have returned from get for the
\* same key, both hold the identical instance and at most one of them called
\* the class.
C2_ConcurrentGetOnce ==
    \A t1, t2 \in Threads :
        (/\ t1 # t2
         /\ pc[t1] = "done" /\ pc[t2] = "done"
         /\ frame[t1].key = frame[t2].key
         /\ frame[t1].res.ok /\ frame[t2].res.ok)
        => /\ frame[t1].res.val = frame[t2].res.val
           /\ ~(frame[t1].invoked /\ frame[t2].invoked)

\* C3: rate limiter admission.  With only one client recorded, a call made
\* while that client's count in the current minute is below the ceiling
\* returns True and a call made at the ceiling returns False; so the first N
\* calls of a bucket return True, call N+1 False, and the first call of the
\* next bucket True.
C3_FirstNAdmitted ==
    [][ \A c \in Clients :
          (/\ minute' = minute
           /\ rl_ret'.client = c
           /\ \A k \in DOMAIN requests : k[1] = c)
          => LET key == <<c, minute>>
                 before == IF key \in DOMAIN requests THEN requests[key] ELSE 0
             IN  /\ before < requests_per_minute => rl_ret'.result = "True"
                 /\ before >= requests_per_minute => rl_ret'.result = "False"
      ]_vars

\* C4: ceiling invariant.  After every is_allowed call each stored count is
\* at most the ceiling, and a call that returns False leaves every count as
\* it was and adds none.
C4_CeilingInvariant ==
    [][ minute' = minute =>
          /\ \A k \in DOMAIN requests' : requests'[k] <= requests_per_minute
          /\ rl_ret'.result = "False" =>
                \A k \in DOMAIN requests' :
                    k \in DOMAIN requests /\ requests'[k] = requests[k]
      ]_vars

\* a client was admitted and its count now stands at the ceiling
C4_Witness ==
    /\ rl_ret.result = "True"
    /\ <<rl_ret.client, rl_ret.minute>> \in DOMAIN requests
    /\ requests[<<rl_ret.client, rl_ret.minute>>] = requests_per_minute

\* C5: pruning.  After every is_allowed call made in minute m, no entry of
\* requests belongs to a minute older than m - 1.
C5_PrunedAfterAdmit ==
    [][ minute' = minute =>
          \A k \in DOMAIN requests' : k[2] >= minute - 1 ]_vars

\* C6: readiness probes are independent.  From every reachable state and for
\* every combination of probe outcomes, validate_all_connections raises
\* nothing and returns an entry for each of the three roles; a role's entry
\* is True exactly when its own instance could be fetched or built and its
\* own validate_connection returned True, whatever the other roles met.
C6_ProbesIndependent ==
    \A probe \in [LeafRoles -> ProbeOutcomes] :
        LET a == ValidateAllOf(World(instances, {}), probe)
        IN  /\ ~a.raised
            /\ DOMAIN a.results = LeafRoles
            /\ \A r \in LeafRoles :
                  a.results[r] = (/\ probe[r] = "True"
                                  /\ Default(r) \in DOMAIN providers[r])

\* validate_all_connections has returned one False and two True
C6_Witness ==
    /\ ret.op = "validate_all"
    /\ DOMAIN ret.results = LeafRoles
    /\ Cardinality({r \in LeafRoles : ~ret.results[r]}) = 1

\* C7: unknown provider.  A create or get whose name has no class registered
\* under its role fails with the unknown-provider error carrying that name
\* and exactly the registered names of the role, and leaves the cache as it
\* was.
C7_UnknownProviderFails ==
    [][ (/\ ret'.op \in {"create", "get"}
         /\ ret'.name \notin DOMAIN providers[ret'.role])
        => /\ ~ret'.res.ok
           /\ ret'.res.err = "ValueError"
           /\ ret'.res.req = ret'.name
           /\ ret'.res.avail = DOMAIN providers[ret'.role]
           /\ instances' = instances
      ]_vars

\* the last class call a ServiceFactory call made
LastCall(log) == log[Len(log)]

\* C8: construction failure.  A get that raises leaves the slot of its key
\* empty; a slot filled by a get holds an instance whose class call
\* completed, cached under its own key; and a get of a leaf role whose name
\* is registered and whose slot is empty calls the class, so a get after a
\* failed one constructs again.
C8_FailedConstructionLeavesSlotEmpty ==
    [][ ret'.op = "get" =>
          /\ ~ret'.res.ok => KeyOf(ret'.role, ret'.name) \notin DOMAIN instances'
          /\ \A k \in DOMAIN instances' \ DOMAIN instances :
                /\ instances'[k] # NoInst
                /\ k = cache_key(instances'[k].role, instances'[k].name)
                /\ \E i \in 1..Len(ret'.log) :
                      /\ ret'.log[i] = <<instances'[k].role, instances'[k].name>>
                      /\ (ret'.res.err = "ConstructionError") => i < Len(ret'.log)
          /\ (/\ ret'.role \in LeafRoles
              /\ KeyOf(ret'.role, ret'.name) \notin DOMAIN instances
              /\ Resolved(ret'.role, ret'.name) \in DOMAIN providers[ret'.role])
             => ret'.log = << <<ret'.role, Resolved(ret'.role, ret'.name)>> >>
      ]_vars

\* a get has failed in the class call of its own role
C8_Witness ==
    /\ ret.op = "get" /\ ret.res.err = "ConstructionError"
    /\ LastCall(ret.log) = <<ret.role, Resolved(ret.role, ret.name)>>
    /\ KeyOf(ret.role, ret.name) \notin DOMAIN instances

\* C9: clear.  clear_instances empties the cache and leaves every
\* registration as it was; and for every key that was cached before it, the
\* next get of that key (its caller still holding the instance cached
\* before the clear) calls the class of the key again and returns and caches
\* an instance that is not the one held.
C9_ClearThenGetRebuilds ==
    [][ ret'.op = "clear" =>
          /\ instances' = <<>>
          /\ providers' = providers
          /\ \A role \in Roles : \A name \in ArgNames(role) :
                KeyOf(role, name) \in DOMAIN instances =>
                  LET old == instances[KeyOf(role, name)]
                      g   == GetOf(World(instances', {old}), role, name, {})
                  IN  /\ g.res.ok
                      /\ g.res.val # old
                      /\ LastCall(g.log) = <<role, Resolved(role, name)>>
                      /\ g.inst[KeyOf(role, name)] = g.res.val
      ]_vars

\* clear_instances has run with a class registered under every role
C9_Witness ==
    /\ ret.op = "clear"
    /\ instances = <<>>
    /\ \A role \in Roles : providers[role] # <<>>

\* C10: create bypasses the cache.  A create leaves the slot of its own key
\* as it was; the instance it returns comes from a class call made by this
\* create and is no cached instance; a create of a leaf role under a
\* registered name always calls the class.  A get that follows (its caller
\* still holding the created instance) returns the cached instance if there
\* is one and otherwise an instance that is not the created one.
C10_CreateBypassesCache ==
    [][ ret'.op = "create" =>
          LET key == KeyOf(ret'.role, ret'.name)
              g   == GetOf(World(instances', {ret'.res.val}),
                           ret'.role, ret'.name, {})
          IN  /\ key \in DOMAIN instances <=> key \in DOMAIN instances'
              /\ key \in DOMAIN instances => instances'[key] = instances[key]
              /\ ret'.res.ok =>
                    /\ ret'.res.val \notin Range(instances')
                    /\ ret'.log # <<>>
                    /\ LastCall(ret'.log) =
                          <<ret'.role, Resolved(ret'.role, ret'.name)>>
                    /\ g.res.ok
                    /\ key \in DOMAIN instances => g.res.val = instances[key]
                    /\ key \notin DOMAIN instances =>
                          (g.res.val # ret'.res.val /\ g.log # <<>>)
              /\ (/\ ret'.role \in LeafRoles
                  /\ Resolved(ret'.role, ret'.name) \in DOMAIN providers[ret'.role])
                 => ret'.log = << <<ret'.role, Resolved(ret'.role, ret'.name)>> >>
      ]_vars

\* a create returned a new instance while a singleton of its key was cached
C10_Witness ==
    /\ ret.op = "create" /\ ret.res.ok
    /\ KeyOf(ret.role, ret.name) \in DOMAIN instances
    /\ instances[KeyOf(ret.role, ret.name)] # ret.res.val

\* the position of the class call of `role` in the log of a call
Pos(log, role) == CHOOSE i \in 1..Len(log) : log[i][1] = role

\* C11: transitive dependency resolution.  With a class registered under the
\* default name of every role and the cache empty, a get of the chat service
\* "default" in which no class call raises returns the chat service, having
\* called each of the five classes once, under the default names: embeddings
\* and vector store before the retrieval strategy, retrieval strategy and LLM
\* provider before the chat service, the chat service last; every one of the
\* five is cached under its default key, and each dependent was built with
\* the cached instances of its dependencies.
C11_TransitiveResolution ==
    [][ (/\ ret'.op = "get" /\ ret'.role = "chat_service"
         /\ ret'.name = "default"
         /\ instances = <<>>
         /\ \A r \in Roles : Default(r) \in DOMAIN providers[r]
         /\ ret'.res.err # "ConstructionError")
        => LET log == ret'.log
               at(r) == instances'[cache_key(r, Default(r))]
           IN  /\ ret'.res.ok
               /\ Len(log) = 5
               /\ \A r \in Roles : \E i \in 1..5 : log[i] = <<r, Default(r)>>
               /\ Pos(log, "embeddings_service") < Pos(log, "retrieval_strategy")
               /\ Pos(log, "vector_store") < Pos(log, "retrieval_strategy")
               /\ Pos(log, "retrieval_strategy") < Pos(log, "chat_service")
               /\ Pos(log, "llm_provider") < Pos(log, "chat_service")
               /\ Pos(log, "chat_service") = 5
               /\ DOMAIN instances' = {cache_key(r, Default(r)) : r \in Roles}
               /\ at("chat_service") = ret'.res.val
               /\ at("chat_service").deps =
                      <<at("llm_provider"), at("retrieval_strategy")>>
               /\ at("retrieval_strategy").deps =
                      <<at("vector_store"), at("embeddings_service")>>
      ]_vars

\* a get of the chat service has built all five components
C11_Witness ==
    /\ ret.op = "get" /\ ret.role = "chat_service" /\ ret.name = "default"
    /\ ret.res.ok
    /\ Len(ret.log) = 5
    /\ Cardinality(DOMAIN instances) = 5

\* how often an event occurs in the events of a request
Count(events, e) == Cardinality({i \in 1..Len(events) : events[i] = e})

\* C12: admission before business logic.  For every request to a path that
\* is not exempt, the admit call is the first thing that happens; the route
\* handler runs only after admit returned True, and then exactly once; a
\* request admit returned False for never reaches the handler and is
\* answered 429 with Retry-After 60.
C12_AdmissionBeforeHandler ==
    (http.req.path # "" /\ http.req.path \notin ExemptPaths) =>
        /\ http.events # <<>> /\ http.events[1] = "admit"
        /\ Count(http.events, "admit") = 1
        /\ Count(http.events, "handler") > 0 => http.admit = "True"
        /\ http.admit = "True" => http.events = <<"admit", "handler">>
        /\ http.admit = "False" =>
              /\ http.events = <<"admit">>
              /\ http.resp.status = 429
              /\ http.resp.retry_after = "60"

\* a request was rejected by the limiter
C12_Witness ==
    /\ http.req.path = "/api"
    /\ http.admit = "False"
    /\ http.resp.status = 429

\* C13: rate-limit exemption.  Handling a request to /health, /ready or
\* /info never calls admit, changes no rate-limiter count and never yields
\* 429.
C13_HealthAndInfoExempt ==
    [][ http'.req.path \in {"/health", "/ready", "/info"} =>
          /\ Count(http'.events, "admit") = 0
          /\ requests' = requests
          /\ http'.resp.status # 429
      ]_vars

\* C14: readiness aggregation.  The response to /ready reports the booleans
\* validate_all_connections recorded, one per role; it is "ready" with 200
\* exactly when all of them are true and "not ready" with 503 otherwise.
C14_ReadinessIsConjunction ==
    [][ http'.req.path = "/ready" =>
          \E probe \in ReadyProbes("/ready") :
             LET a == ValidateAllOf(World(instances, {}), probe)
                 all_true == \A r \in LeafRoles : a.results[r]
             IN  /\ http'.resp.services = a.results
                 /\ DOMAIN http'.resp.services = LeafRoles
                 /\ all_true => /\ http'.resp.status = 200
                                /\ http'.resp.status_text = "ready"
                 /\ ~all_true => /\ http'.resp.status = 503
                                 /\ http'.resp.status_text = "not ready"
      ]_vars

\* /ready answered "not ready" because exactly one service is unhealthy
C14_Witness ==
    /\ http.req.path = "/ready"
    /\ http.resp.status = 503
    /\ DOMAIN http.resp.services = LeafRoles
    /\ Cardinality({r \in LeafRoles : ~http.resp.services[r]}) = 1

\* C15: client identification precedence.  The client id of a request is
\* the first entry of X-Forwarded-For when that header is present, otherwise
\* X-Real-IP when present, otherwise the peer address, otherwise "unknown".
C15_ClientIdPrecedence ==
    http.client_id # <<>> =>
        http.client_id[1] =
            IF http.req.xff # <<>> THEN http.req.xff[1]
            ELSE IF http.req.real_ip # <<>> THEN http.req.real_ip[1]
            ELSE IF http.req.peer # <<>> THEN http.req.peer[1]
            ELSE Unknown

\* C20: structured error responses.  Every error response - for an
\* exception (500), for an HTTPException (its status) and for a rate-limit
\* rejection (429) - carries the identifier of its request in its body (the
\* X-Request-ID the client sent, or else the token created for the request)
\* and no stack trace.
C20_ErrorsCarryRequestId ==
    http.resp.kind \in {"exception", "http_error", "rate_limited"} =>
        /\ http.resp.error # ""
        /\ ~http.resp.stack_trace
        /\ http.resp.request_id \notin {"", "unknown"}
        /\ http.req.rid # "" => http.resp.request_id = http.req.rid

\* the upstream batch calls among the events of an embed_texts call
Batches(events) == SelectSeq(events, LAMBDA ev : ev.kind = "batch")

\* C16: embed_texts batching.  When embed_texts(texts, batch_size) returns,
\* with n texts and batch_size b >= 1, it returns n responses, the k-th
\* being the embedding of the k-th text; it has made ceil(n/b) upstream
\* calls, the j-th over texts (j-1)b+1 .. min(jb, n); a sleep lies between
\* every two consecutive calls and none follows the last; with no texts it
\* returns the empty list and makes no call.
C16_EmbedTextsBatches ==
    emb.pc = "returned" =>
        LET n == Len(emb.texts)
            b == emb.batch_size
            ncalls == (n + b - 1) \div b
        IN  /\ Len(emb.result) = n
            /\ \A k \in 1..n : emb.result[k].embedding = Embedding(emb.texts[k])
            /\ Len(Batches(emb.events)) = ncalls
            /\ \A j \in 1..ncalls :
                  Batches(emb.events)[j].batch =
                      SubSeq(emb.texts, (j - 1) * b + 1, Min(j * b, n))
            /\ Len(emb.events) = IF ncalls = 0 THEN 0 ELSE 2 * ncalls - 1
            /\ \A j \in 1..Len(emb.events) :
                  emb.events[j].kind = IF j % 2 = 1 THEN "batch" ELSE "sleep"

\* five texts were embedded in batches of 2, 2 and 1
C16_Witness ==
    /\ emb.pc = "returned"
    /\ Len(emb.texts) = 5 /\ emb.batch_size = 2
    /\ Len(emb.result) = 5
    /\ Len(Batches(emb.events)) = 3

\* C17: embed_texts is all-or-nothing.  An upstream batch call that fails
\* makes embed_texts raise that failure, returning no response; after it
\* the call sends no further batch and does not repeat the failed one: the
\* only thing that follows is a new call of embed_texts.
C17_EmbedTextsAllOrNothing ==
    [][ /\ (/\ Len(emb'.events) = Len(emb.events) + 1
            /\ emb'.events[Len(emb'.events)].outcome # "ok")
           => /\ emb'.pc = "raised"
              /\ emb'.err = emb'.events[Len(emb'.events)].outcome
              /\ emb'.result = <<>>
        /\ emb.pc = "raised"
           => \/ emb' = emb
              \/ emb'.events = <<>> /\ emb'.result = <<>>
      ]_vars

\* the second batch of a call failed after the first had succeeded
C17_Witness ==
    /\ emb.pc = "raised"
    /\ Len(emb.events) = 3
    /\ emb.all_responses # <<>>
    /\ emb.result = <<>>

\* C18: validate_connection never raises.  validate_connection of the LLM
\* provider and of the embeddings service returns True when the upstream
\* call succeeds and False, raising nothing, when it fails.
C18_ValidateConnectionNeverRaises ==
    conn.role # "" =>
        conn.result = IF conn.upstream = "ok" THEN "True" ELSE "False"

\* validate_connection of the embeddings service met a failing upstream
C18_Witness ==
    /\ conn.role = "embeddings_service"
    /\ conn.upstream = "TimeoutError"
    /\ conn.result = "False"

\* C19: no silent fallback.  A create or get whose name (the empty name
\* included) has no class registered under its role fails with the
\* configuration error, and no call returns an instance registered under a
\* name other than the requested one.
C19_NoSilentFallback ==
    [][ ret'.op \in {"create", "get"} =>
          /\ ret'.name \notin DOMAIN providers[ret'.role] =>
                (~ret'.res.ok /\ ret'.res.err = "ValueError")
          /\ ret'.res.ok => ret'.res.val.name = ret'.name
      ]_vars


\* C21: register_<role>(name, c) makes c the class under (role, name),
\* replacing any class registered there before and leaving every other
\* registration as it was; get_available_providers then lists the name exactly
\* once under the role; a create_<role> that succeeds returns an instance of
\* the class currently registered under the name it resolved.
C21_RegisterOverwrites ==
    [][/\ ret'.op = "register" =>
            LET r == ret'.role
                n == ret'.name
                l == get_available_providers(providers')[r]
            IN  /\ n \in DOMAIN providers'[r]
                /\ providers'[r][n] = ret'.cls
                /\ \A r2 \in Roles :
                      /\ DOMAIN providers'[r2] =
                            DOMAIN providers[r2] \cup (IF r2 = r THEN {n} ELSE {})
                      /\ \A n2 \in DOMAIN providers[r2] :
                            (r2 # r \/ n2 # n) =>
                                providers'[r2][n2] = providers[r2][n2]
                /\ Cardinality({i \in DOMAIN l : l[i] = n}) = 1
       /\ (ret'.op = "create" /\ ret'.res.ok) =>
            ret'.res.val.cls =
                providers[ret'.role][Resolved(ret'.role, ret'.name)]
      ]_vars

\* a class B was registered over class A under llm_provider "openai": the
\* cached singleton is an A, the instance create just returned is a B
C21_Witness ==
    /\ ret.op = "create" /\ ret.role = "llm_provider" /\ ret.res.ok
    /\ ret.res.val.cls = "B"
    /\ "llm_provider_openai" \in DOMAIN instances
    /\ instances["llm_provider_openai"].cls = "A"
    /\ providers["llm_provider"]["openai"] = "B"


\* C27: register_<role> leaves the cache as it is; get_<role> on a name whose
\* singleton is cached returns that singleton, built by the class registered
\* when it was built, calls no class and changes nothing, whatever is
\* registered now; create_<role>, and get_<role> on an empty slot, build with
\* the class registered now.
C27_StaleSingletonUntilClear ==
    [][/\ ret'.op = "register" => instances' = instances
       /\ (ret'.op = "get" /\ KeyOf(ret'.role, ret'.name) \in DOMAIN instances) =>
            /\ ret'.res.ok
            /\ ret'.res.val = instances[KeyOf(ret'.role, ret'.name)]
            /\ ret'.log = <<>>
            /\ instances' = instances
       /\ (/\ ret'.op \in {"get", "create"} /\ ret'.res.ok
           /\ (ret'.op = "get" =>
                  KeyOf(ret'.role, ret'.name) \notin DOMAIN instances)) =>
            /\ ret'.log # <<>>
            /\ ret'.res.val.cls =
                  providers[ret'.role][Resolved(ret'.role, ret'.name)]
       /\ ret'.op = "clear" => instances' = <<>>
      ]_vars

\* get_llm_provider has just returned the cached A although B is registered
C27_Witness ==
    /\ ret.op = "get" /\ ret.role = "llm_provider" /\ ret.res.ok
    /\ ret.log = <<>>
    /\ ret.res.val.cls = "A"
    /\ "openai" \in DOMAIN providers["llm_provider"]
    /\ providers["llm_provider"]["openai"] = "B"
    /\ "llm_provider_openai" \in DOMAIN instances
    /\ instances["llm_provider_openai"] = ret.res.val


\* C28: a get_ or create_ of a retrieval strategy or chat service under an
\* unregistered name raises before any class is called and leaves the cache
\* as it was; under a registered name it keeps every cache entry it found,
\* caches every dependency whose class call succeeded during the call, also
\* when a later class call raises, and a call that raises leaves the
\* composite's own slot as it was (empty, for get).
C28_PartialEffectsOfComposite ==
    [][(/\ ret'.op \in {"get", "create"}
        /\ ret'.role \in {"retrieval_strategy", "chat_service"}) =>
         LET role == ret'.role
             key  == KeyOf(role, ret'.name)
             log  == ret'.log
             \* the class calls of the call that returned an object which is
             \* not the object create_ hands to its caller
             deps == {i \in DOMAIN log :
                        /\ (~ret'.res.ok => i < Len(log))
                        /\ (ret'.op = "create" => i < Len(log))}
         IN  /\ \A k \in DOMAIN instances :
                   k \in DOMAIN instances' /\ instances'[k] = instances[k]
             /\ (/\ ret'.name \notin DOMAIN providers[role]
                 /\ key \notin DOMAIN instances) =>
                   /\ ~ret'.res.ok /\ ret'.res.err = "ValueError"
                   /\ log = <<>>
                   /\ instances' = instances
             /\ \A i \in deps :
                   LET k == cache_key(log[i][1], log[i][2])
                   IN  /\ k \notin DOMAIN instances
                       /\ k \in DOMAIN instances'
                       /\ instances'[k].role = log[i][1]
                       /\ (ret'.op = "get" /\ ret'.res.ok /\ i = Len(log)) =>
                              k = key
             /\ ~ret'.res.ok =>
                   /\ (ret'.op = "get" => key \notin DOMAIN instances)
                   /\ (key \in DOMAIN instances' <=> key \in DOMAIN instances)
      ]_vars

\* get_chat_service raised in the chat service's own class call after the four
\* dependencies were built: they are cached, the chat service is not
C28_Witness ==
    /\ ret.op = "get" /\ ret.role = "chat_service" /\ ~ret.res.ok
    /\ ret.res.err = "ConstructionError"
    /\ Len(ret.log) = 5
    /\ DOMAIN instances = {"llm_provider_openai", "vector_store_pinecone",
                           "embeddings_service_openai",
                           "retrieval_strategy_similarity"}


\* the cache slot validate_all_connections reads for a role
ProbedKey(role) == cache_key(role, Default(role))

\* C26: validate_all_connections changes no registration and nothing of the
\* rate limiter, and keeps every cached singleton as it is; what it adds to
\* the cache is, for a probed role whose slot was empty, an instance it built
\* from the class registered under the role's default name; and whatever the
\* probes meet, a role whose class call raises keeps its slot empty.
C26_ProbesReadOnly ==
    /\ [](\A probe \in [LeafRoles -> ProbeOutcomes] :
            LET a == ValidateAllOf(World(instances, {}), probe)
            IN  \A r \in LeafRoles :
                  (probe[r] = "init raises" /\ ProbedKey(r) \notin DOMAIN instances)
                      => ProbedKey(r) \notin DOMAIN a.w.inst)
    /\ [][ret'.op = "validate_all" =>
            /\ providers' = providers
            /\ <<requests, minute, requests_per_minute, rl_ret>>' =
                  <<requests, minute, requests_per_minute, rl_ret>>
            /\ \A k \in DOMAIN instances :
                  k \in DOMAIN instances' /\ instances'[k] = instances[k]
            /\ \A k \in DOMAIN instances' \ DOMAIN instances :
                  \E r \in LeafRoles :
                     /\ k = ProbedKey(r)
                     /\ Default(r) \in DOMAIN providers[r]
                     /\ instances'[k].role = r
                     /\ instances'[k].name = Default(r)
                     /\ instances'[k].cls = providers[r][Default(r)]
                     /\ \E i \in DOMAIN ret'.log : ret'.log[i] = <<r, Default(r)>>
         ]_vars

\* validate_all_connections called the three classes; one call raised and
\* its slot is empty, the other two instances are cached
C26_Witness ==
    /\ ret.op = "validate_all"
    /\ Len(ret.log) = 3
    /\ Cardinality(DOMAIN instances) = 2
    /\ DOMAIN instances \subseteq {ProbedKey(r) : r \in LeafRoles}


\* C29: every retrieval strategy in the cache was given the vector store and
\* the embeddings service that are cached under the default names, and every
\* chat service in the cache was given the cached default LLM provider and
\* the cached "similarity" retrieval strategy.
C29_SharedDependencies ==
    \A k \in DOMAIN instances :
        LET o == instances[k]
        IN  /\ o.role = "retrieval_strategy" =>
                  /\ ProbedKey("vector_store") \in DOMAIN instances
                  /\ ProbedKey("embeddings_service") \in DOMAIN instances
                  /\ o.deps = <<instances[ProbedKey("vector_store")],
                                instances[ProbedKey("embeddings_service")]>>
            /\ o.role = "chat_service" =>
                  /\ ProbedKey("llm_provider") \in DOMAIN instances
                  /\ "retrieval_strategy_similarity" \in DOMAIN instances
                  /\ o.deps = <<instances[ProbedKey("llm_provider")],
                                instances["retrieval_strategy_similarity"]>>

\* validate_all_connections has run while a chat service and a retrieval
\* strategy were cached, after a class B was registered over the A the cached
\* LLM provider was built from
C29_Witness ==
    /\ ret.op = "validate_all"
    /\ "chat_service_default" \in DOMAIN instances
    /\ "retrieval_strategy_similarity" \in DOMAIN instances
    /\ instances["chat_service_default"].deps[1].cls = "A"
    /\ providers["llm_provider"]["openai"] = "B"


\* C30: per-client isolation.  Whatever is recorded for other clients and for
\* earlier minutes, an is_allowed call by a client whose own count in the
\* current minute is below the ceiling returns True, and a call by a client
\* whose own count is at the ceiling returns False; no call raises.
C30_PerClientIsolation ==
    [][ \A c \in Clients :
          (minute' = minute /\ rl_ret'.client = c)
          => LET key == <<c, minute>>
                 own == IF key \in DOMAIN requests THEN requests[key] ELSE 0
             IN  /\ rl_ret'.result \in {"True", "False"}
                 /\ own < requests_per_minute => rl_ret'.result = "True"
                 /\ own >= requests_per_minute => rl_ret'.result = "False"
      ]_vars


\* the threads that returned True for client c in minute m
Admitted(c, m) ==
    {t \in Threads : /\ adm[t].pc = "done" /\ adm[t].result = "True"
                     /\ adm[t].client_id = c /\ adm[t].minute = m}

\* C24: concurrent is_allowed calls.  For every client and minute the calls
\* that returned True are at most the ceiling, and each of them is counted
\* in requests (no increment is lost).
C24_AdmitAtomic ==
    \A c \in Clients : \A m \in 0..MaxMinute :
        LET count == IF <<c, m>> \in DOMAIN requests
                     THEN requests[<<c, m>>] ELSE 0
        IN  /\ Cardinality(Admitted(c, m)) <= requests_per_minute
            /\ Cardinality(Admitted(c, m)) <= count


\* C25: self-reference.  A get_ that finds its slot empty and whose class
\* calls get_ for the same role and name from __init__ raises, and leaves
\* the slot empty.
C25_SelfReferenceFails ==
    [][(/\ ret'.op = "get"
        /\ KeyOf(ret'.role, ret'.name) \notin DOMAIN instances
        /\ Resolved(ret'.role, ret'.name) \in DOMAIN providers[ret'.role]
        /\ providers[ret'.role][Resolved(ret'.role, ret'.name)] \in SelfClasses)
       => /\ ~ret'.res.ok
          /\ KeyOf(ret'.role, ret'.name) \notin DOMAIN instances'
      ]_vars


LeafPaths == {<<"app_name">>, <<"openai", "api_key">>, <<"openai", "model">>}

\* whether dict d holds a value at path p, and that value
Has(d, p) ==
    /\ p[1] \in DOMAIN d
    /\ Len(p) = 2 => (d[p[1]].dict /\ p[2] \in DOMAIN d[p[1]].items)

At(d, p) == IF Len(p) = 1 THEN d[p[1]] ELSE d[p[1]].items[p[2]]

\* C23: YAML override merge.  In the settings get_settings returns, every
\* key the YAML files hold, at either nesting level, has the YAML value (that
\* of config.<environment>.yaml where both files hold the key), and every
\* key they do not hold has the value the environment variables and the
\* defaults give it.
C23_YamlOverlayKeyByKey ==
    (cfg.op = "get_settings" /\ cfg.ok) =>
        \A p \in LeafPaths :
            At(cfg.val, p) =
                IF Has(cfg.yaml_env, p) THEN At(cfg.yaml_env, p)
                ELSE IF Has(cfg.yaml_base, p) THEN At(cfg.yaml_base, p)
                ELSE At(SettingsOf(<<>>, cfg.env).val, p)

=============================================================================
